---- MODULE Spec2Model ----
(***************************************************************************)
(* Model of app.py: the Streamlit "Agentic Assignment Evaluator".          *)
(*                                                                         *)
(* State: the projects/ directory (one <name>.json per project, the       *)
(* projects_list.txt index, the saved submission PDFs), the working        *)
(* directory (temporary copies of uploaded files), st.session_state, the   *)
(* wall clock, and the position of the script run that is in flight.       *)
(*                                                                         *)
(* Strings that the code inspects character by character (project names:   *)
(* line.strip(), sorted()) are sequences of code points; strings that are  *)
(* only stored and compared (texts, file names, comments) are TLA+ strings.*)
(***************************************************************************)
EXTENDS Integers, Sequences, FiniteSets, TLC

VARIABLES
    records,     \* projects/<name>.json, for every project name
    index,       \* projects/projects_list.txt: its lines (<<>>: no file)
    localFiles,  \* the other files on disk: saved PDFs and temporary copies
    session,     \* st.session_state: a function on the keys that are present
    now,         \* the wall clock, in ticks
    wf,          \* the script run in flight (or the last one, when finished)
    ret,         \* outcome of the last AssignmentManager call
    pre          \* records and index as they were when the last run began

vars == <<records, index, localFiles, session, now, wf, ret, pre>>

----------------------------------------------------------------------------
(* Bounds *)

MaxClock == 3    \* ticks of the clock: one per script run that reads it
MaxPolls == 1    \* polls of one file that may answer PROCESSING
MaxFiles == 2    \* length of the list handed to wait_for_files_active

----------------------------------------------------------------------------
(* Values *)

\* Python's None; distinct from every text, "" included.
None == "<None>"

\* "Untitled Project", the placeholder of lines 37 and 413 (interior
\* characters play no part in strip() or in the order of the three names,
\* so the name is cut down to its first character, 'U' = 85).
UntitledProject == <<85>>

\* The names a user types into the text_input of line 451:
\* "A" (65), "A " (65, 32: a trailing blank) and the placeholder.
ProjectNames == { <<65>>, <<65, 32>>, UntitledProject }

\* uploaded_file.name of the st.file_uploader of line 454
BriefNames == { "work.pdf", "brief.pdf" }

\* uploaded_file.name of the st.file_uploader of line 298
SubmissionNames == { "work.pdf" }

\* response.text of a guide generation that succeeded (line 472)
Guides == { "Step 1", "Read the brief" }

\* evaluation_response.text of an evaluation that succeeded (line 348)
Evaluations == { "Grade: B+" }

\* the text a successful generation returns to a script run of this kind
Texts(kind) == IF kind = "ingest" THEN Guides ELSE Evaluations

\* the st.text_area of line 301
Comments == { "" }

\* file.state.name as the service reports it
FileStates == { "PROCESSING", "ACTIVE", "FAILED" }

\* Python truthiness of an Optional[str]
Truthy(v) == v # None /\ v # ""

\* str.strip(): whitespace code points removed at both ends
IsSpace(c) == c \in {9, 10, 11, 12, 13, 32}

RECURSIVE lstrip(_)
lstrip(s) ==
    IF s # <<>> /\ IsSpace(Head(s)) THEN lstrip(Tail(s)) ELSE s

RECURSIVE rstrip(_)
rstrip(s) ==
    IF s # <<>> /\ IsSpace(s[Len(s)])
    THEN rstrip(SubSeq(s, 1, Len(s) - 1))
    ELSE s

strip(s) == rstrip(lstrip(s))

\* str.__lt__: code point by code point, a proper prefix is smaller
RECURSIVE StrLess(_, _)
StrLess(s, t) ==
    IF s = <<>> THEN t # <<>>
    ELSE IF t = <<>> THEN FALSE
    ELSE IF Head(s) # Head(t) THEN Head(s) < Head(t)
    ELSE StrLess(Tail(s), Tail(t))

\* sorted(set)
RECURSIVE sorted(_)
sorted(S) ==
    IF S = {} THEN <<>>
    ELSE LET m == CHOOSE x \in S : \A y \in S : x = y \/ StrLess(x, y)
         IN  <<m>> \o sorted(S \ {m})

\* datetime.now().isoformat(): the tick itself
isoformat(t) == t

\* datetime.now().strftime('%Y%m%d_%H%M%S'): whole seconds, two ticks each
strftime(t) == t \div 2

\* os.path.join(projects_dir, f"{project}_{stamp}.pdf")
SavePath(project, stamp) == <<"projects", project, stamp>>

\* a bare file name, relative to the working directory
CwdPath(fname) == <<"cwd", fname>>

----------------------------------------------------------------------------
(* The record files *)

\* no file at get_project_path(name)
NoFile == [kind |-> "missing"]

\* a file opened with 'w' whose json.dump did not complete
Truncated == [kind |-> "corrupt"]

\* json.dump(project_data, f): a complete file holding the data
json_dump(data) == [kind |-> "json", data |-> data]

IsRecord(f) == f.kind = "json"

\* outcome of a call: a returned value, None, or a raised exception
RetValue(v) == [tag |-> "value", value |-> v]
RetNone == [tag |-> "None"]
RetTrue == [tag |-> "True"]
RetFalse == [tag |-> "False"]
Raised(e) == [tag |-> "raise", exc |-> e]

\* the methods class AssignmentManager defines
Methods ==
    { "__init__", "get_project_path", "save_project",
      "update_projects_list", "load_project", "add_submission" }

\* load_project answering a missing file with an empty project
load_project_Default(recs, project_name) ==
    CASE recs[project_name].kind = "missing" ->
           RetValue([ name |-> project_name, brief_content |-> "",
                      original_file |-> "", created_date |-> 0,
                      submissions |-> <<>>, status |-> "In Progress" ])
      [] recs[project_name].kind = "corrupt" -> Raised("JSONDecodeError")
      [] OTHER -> RetValue(recs[project_name].data)

\* json.load of the file at get_project_path(project_name)
load_project(recs, project_name) ==
    CASE recs[project_name].kind = "missing" -> RetNone
      [] recs[project_name].kind = "corrupt" -> Raised("JSONDecodeError")
      [] OTHER -> RetValue(recs[project_name].data)

\* the lines of projects_list.txt after registering project_name
update_projects_list(idx, project_name) ==
    LET projects == { strip(idx[i]) : i \in 1..Len(idx) }
    IN  sorted(projects \cup {project_name})

\* the dictionary save_project builds
ProjectData(project_name, brief_content, file_name, t) ==
    [ name          |-> project_name,
      brief_content |-> brief_content,
      original_file |-> file_name,
      created_date  |-> isoformat(t),
      submissions   |-> <<>>,
      status        |-> "In Progress" ]

\* save_project updating a stored record instead of replacing it
save_project_Keeps(recs, idx, project_name, brief_content, file_name, t) ==
    LET fresh == ProjectData(project_name, brief_content, file_name, t)
        data == IF recs[project_name].kind = "json"
                THEN [fresh EXCEPT
                        !.submissions = recs[project_name].data.submissions,
                        !.status = recs[project_name].data.status]
                ELSE fresh
    IN  [ records |-> [recs EXCEPT ![project_name] = json_dump(data)],
          index   |-> update_projects_list(idx, project_name) ]

\* the store after save_project at time t
save_project(recs, idx, project_name, brief_content, file_name, t) ==
    [ records |-> [recs EXCEPT ![project_name] =
                      json_dump(ProjectData(project_name, brief_content,
                                            file_name, t))],
      index   |-> update_projects_list(idx, project_name) ]

\* the dictionary with the status handle_submission writes into its own
\* (line 357), whatever the evaluation
Submission_Evaluated(file_path, comments, evaluation, t) ==
    [ date       |-> isoformat(t),
      file_path  |-> file_path,
      comments   |-> comments,
      status     |-> "Evaluated",
      evaluation |-> evaluation,
      grade      |-> None ]

\* the dictionary add_submission builds; building it looks up
\* self._extract_grade when evaluation is truthy
Submission(file_path, comments, evaluation, t) ==
    [ date       |-> isoformat(t),
      file_path  |-> file_path,
      comments   |-> comments,
      status     |-> IF Truthy(evaluation) THEN "Evaluated" ELSE "Submitted",
      evaluation |-> evaluation,
      grade      |-> None ]

\* project_data with the submission dropped in place of the stored ones
WithSubmission_Replaces(project_data, submission, evaluation) ==
    [project_data EXCEPT
       !.submissions = <<submission>>,
       !.status = IF Truthy(evaluation) THEN "Evaluated" ELSE "Submitted"]

\* project_data with the submission appended, a resubmission putting the
\* project back in progress
WithSubmission_Reopens(project_data, submission, evaluation) ==
    [project_data EXCEPT
       !.submissions = Append(@, submission),
       !.status = IF project_data.submissions = <<>>
                  THEN "Submitted" ELSE "In Progress"]

\* project_data with the submission appended and the record's date
\* refreshed to the submission's
WithSubmission_Touches(project_data, submission, evaluation) ==
    [project_data EXCEPT
       !.submissions = Append(@, submission),
       !.created_date = submission.date,
       !.status = IF Truthy(evaluation) THEN "Evaluated" ELSE "Submitted"]

\* project_data after lines 195-196
WithSubmission(project_data, submission, evaluation) ==
    [project_data EXCEPT
       !.submissions = Append(@, submission),
       !.status = IF Truthy(evaluation) THEN "Evaluated" ELSE "Submitted"]

\* the record files and the outcome of add_submission at time t
add_submission(recs, project_name, file_path, comments, evaluation, t) ==
    LET loaded == load_project(recs, project_name)
    IN  CASE loaded.tag = "raise" ->
               [records |-> recs, ret |-> loaded]
          [] loaded.tag = "None" ->
               [records |-> recs, ret |-> RetFalse]
          [] Truthy(evaluation) /\ "_extract_grade" \notin Methods ->
               [records |-> recs, ret |-> Raised("AttributeError")]
          [] OTHER ->
               LET updated == WithSubmission(
                                  loaded.value,
                                  Submission(file_path, comments,
                                             evaluation, t),
                                  evaluation)
               IN  [records |-> [recs EXCEPT ![project_name] =
                                    json_dump(updated)],
                    ret |-> RetTrue]

----------------------------------------------------------------------------
(* Script runs *)

\* no script run has started yet
NoRun ==
    [ kind |-> "none", pc |-> "idle", name |-> UntitledProject,
      file |-> "", comments |-> "", save |-> FALSE, save_path |-> <<>>,
      handle |-> None, state |-> None, polls |-> 0, text |-> None,
      err |-> "none", persisted |-> FALSE ]

\* the last AssignmentManager call: method, project, evaluation argument
\* (None where the method has none) and outcome
Call(op, name, evaluation, out) ==
    [op |-> op, name |-> name, evaluation |-> evaluation, out |-> out]

\* no AssignmentManager call was made by the script run
NoCall == Call("none", UntitledProject, None, RetNone)

Store == [records |-> records, index |-> index]

\* a new script run may start: none is in flight
Idle == wf.pc \in {"idle", "done"}

\* lines 412-413, executed by every script run
WithActiveProject(sess) ==
    IF "active_project" \in DOMAIN sess
    THEN sess
    ELSE [k \in DOMAIN sess \cup {"active_project"} |->
            IF k = "active_project" THEN UntitledProject ELSE sess[k]]

\* keys reset_application_state keeps: key.startswith('_')
InternalKeys == { "_internal" }

\* reset_application_state without the default of line 37 for a pointer
\* that was set
reset_application_state_KeepsActive(sess) ==
    [k \in (DOMAIN sess \cap InternalKeys) \cup {"active_project"} |->
        IF k \in DOMAIN sess THEN sess[k] ELSE UntitledProject]

\* st.session_state after reset_application_state
reset_application_state(sess) ==
    LET cleared == [k \in (DOMAIN sess \ {"active_project"}) \cap InternalKeys
                      |-> sess[k]]
    IN  [k \in DOMAIN cleared \cup {"active_project"} |->
            IF k = "active_project" THEN UntitledProject ELSE cleared[k]]

Init ==
    /\ records = [n \in ProjectNames |-> NoFile]
    /\ index = <<>>
    /\ localFiles = {}
    /\ session = [k \in {"active_project"} |-> UntitledProject]
    /\ now = 0
    /\ wf = NoRun
    /\ ret = NoCall
    /\ pre = [records |-> [n \in ProjectNames |-> NoFile], index |-> <<>>]

\* a sidebar project button is clicked (lines 419-429)
SelectProject(i) ==
    /\ Idle
    /\ i \in 1..Len(index)
    /\ session' = [WithActiveProject(session) EXCEPT
                      !["active_project"] = strip(index[i])]
    /\ wf' = NoRun
    /\ ret' = NoCall
    /\ pre' = Store
    /\ UNCHANGED <<records, index, localFiles, now>>

\* the Refresh button (lines 444-446)
Refresh ==
    /\ Idle
    /\ session' = reset_application_state(WithActiveProject(session))
    /\ wf' = [NoRun EXCEPT !.kind = "reset", !.pc = "done"]
    /\ ret' = NoCall
    /\ pre' = Store
    /\ UNCHANGED <<records, index, localFiles, now>>

\* the "View Assignment" page (display_active_project, lines 203-237)
ViewAssignment ==
    /\ Idle
    /\ LET sess == WithActiveProject(session)
           name == sess["active_project"]
           loaded == load_project(records, name)
       IN  /\ session' = sess
           /\ ret' = Call("load_project", name, None, loaded)
           /\ wf' = NoRun
    /\ pre' = Store
    /\ UNCHANGED <<records, index, localFiles, now>>

\* the "Upload Brief" page with a name typed and no file chosen
\* (lines 449-455)
EnterProjectName(project_name) ==
    /\ Idle
    /\ project_name \in ProjectNames
    /\ session' = [WithActiveProject(session) EXCEPT
                      !["active_project"] = project_name]
    /\ wf' = NoRun
    /\ ret' = NoCall
    /\ pre' = Store
    /\ UNCHANGED <<records, index, localFiles, now>>

\* the "Upload Brief" page with a file chosen, up to the temporary copy
\* (lines 449-458); save: whether "Save Assignment" was clicked
UploadBriefBegin(project_name, fname, save) ==
    /\ Idle
    /\ project_name \in ProjectNames
    /\ fname \in BriefNames
    /\ save \in BOOLEAN
    /\ now < MaxClock
    /\ session' = [WithActiveProject(session) EXCEPT
                      !["active_project"] = project_name]
    /\ localFiles' = localFiles \cup {CwdPath(fname)}
    /\ wf' = [NoRun EXCEPT !.kind = "ingest", !.pc = "upload",
                           !.name = project_name, !.file = fname,
                           !.save = save]
    /\ now' = now + 1
    /\ ret' = NoCall
    /\ pre' = Store
    /\ UNCHANGED <<records, index>>

\* handle_submission up to the local copy of the document (lines 283-314)
SubmitBegin(fname, comments) ==
    /\ Idle
    /\ fname \in SubmissionNames
    /\ comments \in Comments
    /\ now < MaxClock
    /\ LET sess == WithActiveProject(session)
           name == sess["active_project"]
           loaded == load_project(records, name)
           save_path == SavePath(name, strftime(now))
       IN  /\ session' = sess
           /\ ret' = Call("load_project", name, None, loaded)
           /\ IF loaded.tag = "value"
              THEN /\ localFiles' = localFiles \cup {save_path}
                   /\ now' = now + 1
                   /\ wf' = [NoRun EXCEPT !.kind = "submit",
                                !.pc = "upload", !.name = name,
                                !.file = fname, !.comments = comments,
                                !.save_path = save_path]
              ELSE /\ UNCHANGED <<localFiles, now>>
                   /\ wf' = [NoRun EXCEPT !.kind = "submit",
                                !.pc = "done", !.name = name,
                                !.file = fname, !.comments = comments,
                                !.err = IF loaded.tag = "raise"
                                        THEN loaded.exc ELSE "rejected"]
    /\ pre' = Store
    /\ UNCHANGED <<records, index>>

\* the finally block of handle_submission (lines 397-403): removes the file
\* named uploaded_file.name, errors swallowed
Cleanup(files, w) ==
    IF w.save_path \in files THEN files \ {CwdPath(w.file)} ELSE files

\* the Upload Brief page saving in spite of the exception
Abort_SavesAnyway(w, e) ==
    /\ wf' = [w EXCEPT !.pc = "done", !.err = e]
    /\ localFiles' = IF w.kind = "submit"
                     THEN Cleanup(localFiles, w)
                     ELSE localFiles
    /\ IF w.kind = "ingest" /\ w.save
       THEN LET saved == save_project(records, index, w.name, "", w.file,
                                      now)
            IN  records' = saved.records /\ index' = saved.index
       ELSE UNCHANGED <<records, index>>

\* an exception e leaves the spinner block: handle_submission catches it
\* and runs its finally block (lines 393-403); the Upload Brief page has no
\* handler, so the script run ends there (line 479 is not reached)
Abort(w, e) ==
    /\ wf' = [w EXCEPT !.pc = "done", !.err = e]
    /\ localFiles' = IF w.kind = "submit"
                     THEN Cleanup(localFiles, w)
                     ELSE localFiles
    /\ UNCHANGED <<records, index>>

\* upload_to_gemini (lines 39-56): the file object, or None on any error
Upload(ok) ==
    /\ wf.pc = "upload"
    /\ ok \in BOOLEAN
    /\ wf' = [wf EXCEPT !.handle = IF ok THEN "file" ELSE None,
                        !.pc = "wait"]
    /\ UNCHANGED <<records, index, localFiles, session, now, ret, pre>>

\* wait_for_files_active([None]): file_obj.name raises (line 73)
WaitNoHandle ==
    /\ wf.pc = "wait"
    /\ wf.handle = None
    /\ Abort(wf, "AttributeError")
    /\ UNCHANGED <<session, now, ret, pre>>

\* one genai.get_file of wait_for_files_active (lines 73-81)
Poll(state) ==
    /\ wf.pc = "wait"
    /\ wf.handle # None
    /\ state \in FileStates
    /\ CASE state = "PROCESSING" ->
              /\ wf.polls < MaxPolls
              /\ wf' = [wf EXCEPT !.state = state, !.polls = @ + 1]
              /\ UNCHANGED <<records, index, localFiles>>
         [] state = "ACTIVE" ->
              /\ wf' = [wf EXCEPT !.state = state, !.polls = 0,
                                  !.pc = "generate"]
              /\ UNCHANGED <<records, index, localFiles>>
         [] OTHER ->
              Abort([wf EXCEPT !.state = state, !.polls = 0],
                    "ProcessingError")
    /\ UNCHANGED <<session, now, ret, pre>>

\* chat_session.send_message returns response.text (lines 348, 472)
GenerateText(text) ==
    /\ wf.pc = "generate"
    /\ text \in Texts(wf.kind)
    /\ wf' = [wf EXCEPT !.text = text, !.pc = "persist"]
    /\ UNCHANGED <<records, index, localFiles, session, now, ret, pre>>

\* start_chat or send_message raises
GenerateFails ==
    /\ wf.pc = "generate"
    /\ Abort(wf, "GenerationError")
    /\ UNCHANGED <<session, now, ret, pre>>

\* the Upload Brief page after the guide is shown (lines 475-479)
PersistBrief ==
    /\ wf.pc = "persist"
    /\ wf.kind = "ingest"
    /\ IF wf.save
       THEN LET saved == save_project(records, index, wf.name, wf.text,
                                      wf.file, now)
            IN  /\ records' = saved.records
                /\ index' = saved.index
                /\ ret' = Call("save_project", wf.name, None, RetNone)
       ELSE UNCHANGED <<records, index, ret>>
    /\ localFiles' = localFiles \ {CwdPath(wf.file)}
    /\ wf' = [wf EXCEPT !.pc = "done", !.persisted = wf.save]
    /\ UNCHANGED <<session, now, pre>>

\* handle_submission after the evaluation is received (lines 352-403):
\* add_submission is called with uploaded_file.name and without evaluation
PersistSubmission ==
    /\ wf.pc = "persist"
    /\ wf.kind = "submit"
    /\ LET added == add_submission(records, wf.name, CwdPath(wf.file),
                                   wf.comments, None, now)
       IN  /\ records' = added.records
           /\ ret' = Call("add_submission", wf.name, None, added.ret)
           /\ wf' = [wf EXCEPT !.pc = "done",
                               !.persisted = (added.ret = RetTrue),
                               !.err = IF added.ret.tag = "raise"
                                       THEN added.ret.exc ELSE "none"]
    /\ localFiles' = Cleanup(localFiles, wf)
    /\ UNCHANGED <<index, session, now, pre>>

Next ==
    \/ \E i \in 1..Len(index) : SelectProject(i)
    \/ Refresh
    \/ ViewAssignment
    \/ \E n \in ProjectNames : EnterProjectName(n)
    \/ \E n \in ProjectNames, f \in BriefNames, b \in BOOLEAN :
          UploadBriefBegin(n, f, b)
    \/ \E f \in SubmissionNames, c \in Comments : SubmitBegin(f, c)
    \/ \E ok \in BOOLEAN : Upload(ok)
    \/ WaitNoHandle
    \/ \E st \in FileStates : Poll(st)
    \/ \E t \in Guides \cup Evaluations : GenerateText(t)
    \/ GenerateFails
    \/ PersistBrief
    \/ PersistSubmission

Spec == Init /\ [][Next]_vars

----------------------------------------------------------------------------
(* The Record Store called directly, outside the pages *)

\* the evaluation arguments of a direct add_submission call
EvaluationArgs == { None, "" } \cup Evaluations

\* assignment_manager.add_submission(name, file_path, comments, evaluation)
CallAddSubmission(name, fname, comments, evaluation) ==
    /\ Idle
    /\ name \in ProjectNames
    /\ fname \in SubmissionNames
    /\ comments \in Comments
    /\ evaluation \in EvaluationArgs
    /\ now < MaxClock
    /\ LET added == add_submission(records, name, CwdPath(fname), comments,
                                   evaluation, now)
       IN  /\ records' = added.records
           /\ ret' = Call("add_submission", name, evaluation, added.ret)
    /\ now' = now + 1
    /\ wf' = NoRun
    /\ pre' = Store
    /\ UNCHANGED <<index, localFiles, session>>

\* assignment_manager.load_project(name)
CallLoadProject(name) ==
    /\ Idle
    /\ name \in ProjectNames
    /\ ret' = Call("load_project", name, None, load_project(records, name))
    /\ wf' = NoRun
    /\ pre' = Store
    /\ UNCHANGED <<records, index, localFiles, session, now>>

NextStore ==
    \/ Next
    \/ \E n \in ProjectNames, f \in SubmissionNames, c \in Comments,
          e \in EvaluationArgs : CallAddSubmission(n, f, c, e)
    \/ \E n \in ProjectNames : CallLoadProject(n)

SpecStore == Init /\ [][NextStore]_vars

----------------------------------------------------------------------------
(* A write that does not complete *)

\* open(path, 'w') has emptied the record file and the process ends before
\* json.dump has written it out (lines 137-138 and 198-199); the next
\* process starts with a fresh session
WriteInterrupted ==
    /\ wf.pc = "persist"
    /\ wf.kind = "ingest" => wf.save
    /\ wf.kind = "submit" => IsRecord(records[wf.name])
    /\ records' = [records EXCEPT ![wf.name] = Truncated]
    /\ session' = [k \in {"active_project"} |-> UntitledProject]
    /\ wf' = [NoRun EXCEPT !.kind = "crash", !.name = wf.name]
    /\ ret' = NoCall
    /\ UNCHANGED <<index, localFiles, now, pre>>

\* save_project has written the record file and the process ends before
\* update_projects_list has rewritten the index (between lines 138 and 140)
IndexNotWritten ==
    /\ wf.pc = "persist"
    /\ wf.kind = "ingest"
    /\ wf.save
    /\ records' = save_project(records, index, wf.name, wf.text, wf.file,
                               now).records
    /\ session' = [k \in {"active_project"} |-> UntitledProject]
    /\ wf' = [NoRun EXCEPT !.kind = "crash", !.name = wf.name]
    /\ ret' = NoCall
    /\ UNCHANGED <<index, localFiles, now, pre>>

NextFault ==
    \/ Next
    \/ WriteInterrupted
    \/ IndexNotWritten

SpecFault == Init /\ [][NextFault]_vars

----------------------------------------------------------------------------
(* Properties *)

IsPrefix(s, t) == Len(s) <= Len(t) /\ SubSeq(t, 1, Len(s)) = s

Last(s) == s[Len(s)]

\* position of a status in In Progress -> Submitted -> Evaluated
Rank(status) ==
    CASE status = "In Progress" -> 0
      [] status = "Submitted" -> 1
      [] status = "Evaluated" -> 2

\* a finished script run of the given page
Finished(kind) == wf.kind = kind /\ wf.pc = "done"

\* the exceptions of a failed upload, a failed processing wait and a
\* failed generation
StepFailures == { "AttributeError", "ProcessingError", "GenerationError" }

\* C1: when the record exists, the upload succeeds, the service reports the
\* document ACTIVE and generation returns a non-empty text T, the record
\* afterwards has status 'Evaluated' and its last, newly appended
\* submission has evaluation T.
C1_SuccessPathEvaluated ==
    ( /\ Finished("submit")
      /\ IsRecord(pre.records[wf.name])
      /\ wf.handle # None
      /\ wf.state = "ACTIVE"
      /\ Truthy(wf.text) )
    => /\ IsRecord(records[wf.name])
       /\ records[wf.name].data.status = "Evaluated"
       /\ Len(records[wf.name].data.submissions)
            = Len(pre.records[wf.name].data.submissions) + 1
       /\ Last(records[wf.name].data.submissions).evaluation = wf.text

\* C2: when the upload, the wait or the generation fails after the document
\* was saved locally, the record afterwards holds one more submission than
\* before, that submission has no evaluation, and the status is
\* 'Submitted'.
C2_FailureKeepsSubmission ==
    ( /\ Finished("submit")
      /\ wf.save_path \in localFiles
      /\ wf.err \in StepFailures )
    => /\ IsRecord(records[wf.name])
       /\ records[wf.name].data.status = "Submitted"
       /\ Len(records[wf.name].data.submissions)
            = Len(pre.records[wf.name].data.submissions) + 1
       /\ Last(records[wf.name].data.submissions).evaluation = None

\* C3: add_submission on an existing project appends exactly one
\* submission, sets that submission's status and the project status to
\* 'Evaluated' when evaluation is present and to 'Submitted' when it is
\* absent, persists the record and returns True.
C3_AppendSetsStatus ==
    ( /\ ret.op = "add_submission"
      /\ IsRecord(pre.records[ret.name]) )
    => LET expected == IF Truthy(ret.evaluation)
                       THEN "Evaluated" ELSE "Submitted"
           old == pre.records[ret.name].data.submissions
       IN  /\ ret.out = RetTrue
           /\ IsRecord(records[ret.name])
           /\ Len(records[ret.name].data.submissions) = Len(old) + 1
           /\ IsPrefix(old, records[ret.name].data.submissions)
           /\ Last(records[ret.name].data.submissions).status = expected
           /\ records[ret.name].data.status = expected

\* C4: when the upload, the wait or the plan generation fails during brief
\* ingestion, no record is written or modified and the index is unchanged.
C4_IngestFailurePersistsNothing ==
    ( Finished("ingest") /\ wf.err # "none" )
    => /\ records = pre.records
       /\ index = pre.index

\* a brief ingestion with "Save Assignment" clicked failed in generation,
\* for a project that has a record
C4_Witness ==
    /\ Finished("ingest")
    /\ wf.err = "GenerationError"
    /\ wf.save
    /\ IsRecord(records[wf.name])

\* C5: Submit & Evaluate on a name without a record is rejected with no
\* durable effect (no record created, no submission appended, index and
\* local files untouched), and add_submission on such a name returns False
\* instead of raising.
C5_MissingProjectRejected ==
    /\ ( Finished("submit") /\ pre.records[wf.name] = NoFile )
       => /\ wf.err = "rejected"
          /\ wf.save_path = <<>>
          /\ records = pre.records
          /\ index = pre.index
    /\ ( ret.op = "add_submission" /\ pre.records[ret.name] = NoFile )
       => /\ ret.out = RetFalse
          /\ records = pre.records
          /\ index = pre.index

\* a submission was rejected for a name without a record while another
\* project holds a record
C5_Witness ==
    /\ Finished("submit")
    /\ wf.err = "rejected"
    /\ records[wf.name] = NoFile
    /\ \E n \in ProjectNames : IsRecord(records[n])

\* C6: load_project returns None instead of raising, for a missing record
\* and for a record file that cannot be deserialized.
C6_LoadNeverRaises ==
    ret.op = "load_project" =>
        /\ ret.out.tag # "raise"
        /\ ~IsRecord(records[ret.name]) => ret.out = RetNone

\* C7: across submit operations the stored submissions of every project
\* only grow at the end: the list before a step is a prefix of the list
\* after it, so the length never decreases, the order is kept and no
\* stored date or file_path changes.
C7_AppendOnly ==
    [][ wf'.kind = "submit" =>
          \A n \in ProjectNames :
             IsRecord(records[n]) =>
                /\ IsRecord(records'[n])
                /\ IsPrefix(records[n].data.submissions,
                            records'[n].data.submissions) ]_vars

\* a submission was appended to a record that already held one
C7_Witness ==
    /\ Finished("submit")
    /\ wf.persisted
    /\ Len(records[wf.name].data.submissions) >= 2

\* C8 as stated: over Ingest Brief, Submit & Evaluate and Reset a stored
\* status never moves backwards in In Progress -> Submitted -> Evaluated.
C8_StatusNeverRegresses ==
    [][ \A n \in ProjectNames :
          (IsRecord(records[n]) /\ IsRecord(records'[n])) =>
             Rank(records'[n].data.status) >= Rank(records[n].data.status)
      ]_vars

\* C8 amended: a stored status moves backwards only when a brief is saved
\* again under the same name, which resets it to 'In Progress'; Submit &
\* Evaluate and Reset never move it backwards.
C8_RegressesOnlyOnReingest ==
    [][ \A n \in ProjectNames :
          ( /\ IsRecord(records[n])
            /\ IsRecord(records'[n])
            /\ Rank(records'[n].data.status) < Rank(records[n].data.status) )
          => /\ wf.kind = "ingest"
             /\ wf.pc = "persist"
             /\ wf.save
             /\ wf.name = n
             /\ records'[n].data.status = "In Progress" ]_vars

\* a submission was appended to a record whose status was already
\* 'Submitted', and the status is still 'Submitted'
C8_Witness ==
    /\ Finished("submit")
    /\ wf.persisted
    /\ pre.records[wf.name].data.status = "Submitted"
    /\ records[wf.name].data.status = "Submitted"

\* C9: saving a brief under a name that has a record replaces
\* brief_content, original_file and created_date, and leaves submissions
\* empty and status 'In Progress', whatever the old record held.
C9_ReingestStartsAfresh ==
    ( Finished("ingest") /\ wf.persisted )
    => /\ IsRecord(records[wf.name])
       /\ records[wf.name].data =
            [ name          |-> wf.name,
              brief_content |-> wf.text,
              original_file |-> wf.file,
              created_date  |-> now,
              submissions   |-> <<>>,
              status        |-> "In Progress" ]

\* a brief was saved over a record that held a submission, another guide,
\* another file name and an older date
C9_Witness ==
    /\ Finished("ingest")
    /\ wf.persisted
    /\ IsRecord(pre.records[wf.name])
    /\ Len(pre.records[wf.name].data.submissions) > 0
    /\ pre.records[wf.name].data.brief_content # wf.text
    /\ pre.records[wf.name].data.original_file # wf.file
    /\ pre.records[wf.name].data.created_date < now

\* C10: the name of every persisted record is a line of the index.
C10_RecordsAreIndexed ==
    \A n \in ProjectNames :
       IsRecord(records[n]) => \E i \in 1..Len(index) : index[i] = n

\* C11: the index lists each registered name once, in lexicographic order;
\* registering a name that is already a line of the index leaves the index
\* unchanged; no line of the index is ever removed.
C11_IndexIsSortedUnion ==
    [][ /\ \A i \in 1..Len(index') : \A j \in 1..Len(index') :
              i < j => StrLess(index'[i], index'[j])
        /\ \A i \in 1..Len(index) :
              \E j \in 1..Len(index') : index'[j] = index[i]
        /\ ( /\ wf.kind = "ingest" /\ wf.pc = "persist" /\ wf.save
             /\ \E i \in 1..Len(index) : index[i] = wf.name )
           => index' = index ]_vars

----------------------------------------------------------------------------
(* wait_for_files_active on a list of files *)

\* file_obj.name of an uploaded file
Handles == { "files/h1", "files/h2" }

\* the lists a caller may hand over: uploaded files, and None where
\* upload_to_gemini failed (lines 318-319, 461-462)
FileLists == UNION { [1..n -> Handles \cup {None}] : n \in 0..MaxFiles }

\* wait_for_files_active(files) has been called
WaitCall(files) ==
    [ kind |-> "wait", pc |-> "call", files |-> files, i |-> 0,
      state |-> None, polls |-> 0,
      polled |-> <<>>,     \* positions genai.get_file was called for
      seen |-> <<>>,       \* the state each file left the while loop with
      progress |-> <<>>,   \* progress_bar.progress calls: <<i + 1, n>>
      exc |-> "none", error |-> None ]

\* the loop going on to the next file after a file failed
AfterGetFile_Continues(w, state) ==
    LET polled == [w EXCEPT !.state = state,
                            !.polled = Append(@, w.i)]
        left == [polled EXCEPT !.polls = 0, !.seen = Append(@, state)]
        reported == IF state = "ACTIVE"
                    THEN [left EXCEPT !.progress =
                            Append(@, <<w.i, Len(w.files)>>)]
                    ELSE left
    IN  CASE state = "PROCESSING" -> [polled EXCEPT !.polls = @ + 1]
          [] w.i = Len(w.files) -> [reported EXCEPT !.pc = "returned"]
          [] OTHER -> [reported EXCEPT !.i = @ + 1]

\* the while loop sleeping without asking the service again
AfterGetFile_Spins(w, state) ==
    LET polled == [w EXCEPT !.state = state,
                            !.polled = Append(@, w.i)]
        left == [polled EXCEPT !.polls = 0, !.seen = Append(@, state)]
        reported == [left EXCEPT !.progress =
                        Append(@, <<w.i, Len(w.files)>>)]
    IN  CASE state = "PROCESSING" -> [polled EXCEPT !.pc = "sleep"]
          [] state # "ACTIVE" ->
               [left EXCEPT !.pc = "raised", !.exc = "Exception",
                            !.error = w.files[w.i]]
          [] w.i = Len(w.files) -> [reported EXCEPT !.pc = "returned"]
          [] OTHER -> [reported EXCEPT !.i = @ + 1]

\* the call after genai.get_file answered state for files[i] (lines 73-81)
AfterGetFile(w, state) ==
    LET polled == [w EXCEPT !.state = state,
                            !.polled = Append(@, w.i)]
        left == [polled EXCEPT !.polls = 0, !.seen = Append(@, state)]
        reported == [left EXCEPT !.progress =
                        Append(@, <<w.i, Len(w.files)>>)]
    IN  CASE state = "PROCESSING" -> [polled EXCEPT !.polls = @ + 1]
          [] state # "ACTIVE" ->
               [left EXCEPT !.pc = "raised", !.exc = "Exception",
                            !.error = w.files[w.i]]
          [] w.i = Len(w.files) -> [reported EXCEPT !.pc = "returned"]
          [] OTHER -> [reported EXCEPT !.i = @ + 1]

InitWait ==
    /\ records = [n \in ProjectNames |-> NoFile]
    /\ index = <<>>
    /\ localFiles = {}
    /\ session = [k \in {"active_project"} |-> UntitledProject]
    /\ now = 0
    /\ wf \in { WaitCall(files) : files \in FileLists }
    /\ ret = NoCall
    /\ pre = [records |-> [n \in ProjectNames |-> NoFile], index |-> <<>>]

\* lines 66-72: an empty list returns at once
WaitEnter ==
    /\ wf.pc = "call"
    /\ wf' = IF wf.files = <<>>
             THEN [wf EXCEPT !.pc = "returned"]
             ELSE [wf EXCEPT !.pc = "poll", !.i = 1]
    /\ UNCHANGED <<records, index, localFiles, session, now, ret, pre>>

\* one genai.get_file(file_obj.name) and what follows it (lines 73-81)
WaitGetFile(state) ==
    /\ wf.pc = "poll"
    /\ wf.files[wf.i] # None
    /\ state \in FileStates
    /\ state = "PROCESSING" => wf.polls < MaxPolls
    /\ wf' = AfterGetFile(wf, state)
    /\ UNCHANGED <<records, index, localFiles, session, now, ret, pre>>

\* file_obj is None: file_obj.name raises AttributeError (line 73)
WaitOnNone ==
    /\ wf.pc = "poll"
    /\ wf.files[wf.i] = None
    /\ wf' = [wf EXCEPT !.pc = "raised", !.exc = "AttributeError"]
    /\ UNCHANGED <<records, index, localFiles, session, now, ret, pre>>

NextWait ==
    \/ WaitEnter
    \/ \E st \in FileStates : WaitGetFile(st)
    \/ WaitOnNone

SpecWait == InitWait /\ [][NextWait]_vars

\* C12: the call returns normally only if every file of the list was seen
\* ACTIVE; when a file leaves PROCESSING in another state the call raises
\* an error naming that file, and the files after it are neither polled nor
\* reported as progress.
C12_FailsOnFirstFailedFile ==
    /\ wf.pc = "returned" =>
          /\ Len(wf.seen) = Len(wf.files)
          /\ \A k \in 1..Len(wf.seen) : wf.seen[k] = "ACTIVE"
    /\ \A k \in 1..Len(wf.seen) :
          wf.seen[k] # "ACTIVE" =>
             /\ wf.pc = "raised"
             /\ wf.error = wf.files[k]
             /\ k = Len(wf.seen)
             /\ \A p \in 1..Len(wf.polled) : wf.polled[p] <= k
             /\ \A p \in 1..Len(wf.progress) : wf.progress[p][1] < k

\* the first of two files failed to process and the call is over
C12_Witness ==
    /\ wf.pc = "raised"
    /\ Len(wf.files) = 2
    /\ wf.seen = <<"FAILED">>
    /\ wf.error = wf.files[1]

\* the call keeps running: its thread is scheduled as long as it can step
SpecWaitFair == SpecWait /\ WF_vars(NextWait)

\* the call has returned or raised
WaitOver == wf.pc \in {"returned", "raised"}

\* C18: a file is polled again exactly while the service answers
\* PROCESSING; when the service ends up answering another state for every
\* polled file the call ends (returns or raises); files are polled in list
\* order and progress (i+1)/n is reported only once file i was seen ACTIVE.
C18_PollingTerminates ==
    /\ <>WaitOver
    /\ [] ( /\ (wf.pc = "poll" /\ wf.state = "PROCESSING")
               => (wf.polled # <<>> /\ Last(wf.polled) = wf.i)
            /\ \A k \in 1..Len(wf.seen) : wf.seen[k] # "PROCESSING"
            /\ \A p \in 1..Len(wf.polled) : \A q \in 1..Len(wf.polled) :
                  p < q => wf.polled[p] <= wf.polled[q]
            /\ Len(wf.progress) <= Len(wf.seen)
            /\ \A p \in 1..Len(wf.progress) :
                  /\ wf.progress[p] = <<p, Len(wf.files)>>
                  /\ wf.seen[p] = "ACTIVE" )

\* two files were waited for, one of them answered PROCESSING first, and
\* the call returned
C18_Witness ==
    /\ wf.pc = "returned"
    /\ Len(wf.files) = 2
    /\ Len(wf.polled) > 2
    /\ wf.progress = << <<1, 2>>, <<2, 2>> >>

\* C13: after Reset no session-state entry other than the internal ones and
\* the active-project pointer is left, the pointer is the placeholder
\* 'Untitled Project', and every record file and the index are as before.
C13_ResetKeepsStore ==
    Finished("reset") =>
       /\ DOMAIN session \ InternalKeys = {"active_project"}
       /\ session["active_project"] = UntitledProject
       /\ records = pre.records
       /\ index = pre.index

\* Reset was pressed while a project with a submission was stored and
\* listed in the index
C13_Witness ==
    /\ Finished("reset")
    /\ index # <<>>
    /\ \E n \in ProjectNames :
          /\ IsRecord(records[n])
          /\ n # UntitledProject
          /\ records[n].data.submissions # <<>>

\* every element of the list s is an element of the list t
Keeps(s, t) == \A k \in 1..Len(s) : \E j \in 1..Len(t) : t[j] = s[k]

\* C14 as stated: no step of Ingest Brief, Submit & Evaluate or Reset
\* removes a record file or a submission a record already contains.
C14_NothingDeleted ==
    [][ \A n \in ProjectNames :
          IsRecord(records[n]) =>
             /\ IsRecord(records'[n])
             /\ Keeps(records[n].data.submissions,
                      records'[n].data.submissions) ]_vars

\* C14 amended: no step removes a record file, and the only step that
\* removes stored submissions is a brief saved again under the same name,
\* which leaves that record without submissions.
C14_DeletedOnlyOnReingest ==
    [][ \A n \in ProjectNames :
          IsRecord(records[n]) =>
             /\ IsRecord(records'[n])
             /\ ~Keeps(records[n].data.submissions,
                       records'[n].data.submissions)
                => /\ wf.kind = "ingest"
                   /\ wf.pc = "persist"
                   /\ wf.save
                   /\ wf.name = n
                   /\ records'[n].data.submissions = <<>> ]_vars

\* a brief was saved under one name while the record of another name kept
\* its submission
C14_Witness ==
    /\ Finished("ingest")
    /\ wf.persisted
    /\ \E n \in ProjectNames \ {wf.name} :
          /\ IsRecord(records[n])
          /\ records[n].data.submissions # <<>>
          /\ records[n] = pre.records[n]

\* C15: in every persisted record status is 'In Progress' exactly when
\* there are no submissions, 'Submitted' exactly when the latest submission
\* has no evaluation, 'Evaluated' exactly when the latest submission
\* carries evaluation text, and the latest submission's status is the
\* project status.
C15_StatusMatchesHistory ==
    \A n \in ProjectNames :
       IsRecord(records[n]) =>
          LET d == records[n].data
              some == d.submissions # <<>>
          IN  /\ d.status \in {"In Progress", "Submitted", "Evaluated"}
              /\ d.status = "In Progress" <=> ~some
              /\ d.status = "Submitted"
                    <=> (some /\ ~Truthy(Last(d.submissions).evaluation))
              /\ d.status = "Evaluated"
                    <=> (some /\ Truthy(Last(d.submissions).evaluation))
              /\ some => Last(d.submissions).status = d.status

\* one record holds a submission and is 'Submitted' while another holds
\* none and is 'In Progress'
C15_Witness ==
    \E n, m \in ProjectNames :
       /\ IsRecord(records[n])
       /\ Len(records[n].data.submissions) = 1
       /\ records[n].data.status = "Submitted"
       /\ IsRecord(records[m])
       /\ records[m].data.submissions = <<>>
       /\ records[m].data.status = "In Progress"

----------------------------------------------------------------------------
(* add_submission called from two browser sessions *)

\* the script runs of two sessions, each on its own thread
Sessions == { 1, 2 }

\* no add_submission call is in flight
NoCalls ==
    [ kind |-> "concurrent",
      procs |-> [p \in Sessions |->
                   [pc |-> "idle", name |-> UntitledProject,
                    project_data |-> NoFile, submission |-> NoFile]],
      returned |-> [n \in ProjectNames |-> 0] ]

\* one brief has been saved by an Upload Brief run
InitConc ==
    \E n \in ProjectNames, g \in Guides, f \in BriefNames :
       LET saved == save_project([m \in ProjectNames |-> NoFile], <<>>,
                                 n, g, f, 1)
       IN  /\ records = saved.records
           /\ index = saved.index
           /\ localFiles = {}
           /\ session = [k \in {"active_project"} |-> n]
           /\ now = 1
           /\ wf = NoCalls
           /\ ret = NoCall
           /\ pre = [records |-> saved.records, index |-> saved.index]

\* session p enters add_submission: load_project and, for a record that
\* exists, the submission dictionary (lines 185-194)
ConcLoad(p, name, fname) ==
    /\ wf.procs[p].pc = "idle"
    /\ name \in ProjectNames
    /\ fname \in SubmissionNames
    /\ now < MaxClock
    /\ LET loaded == load_project(records, name)
       IN  /\ ret' = Call("load_project", name, None, loaded)
           /\ wf' = IF loaded.tag = "value"
                    THEN [wf EXCEPT !.procs[p] =
                            [pc |-> "loaded", name |-> name,
                             project_data |-> loaded.value,
                             submission |->
                                Submission(CwdPath(fname), "", None, now)]]
                    ELSE wf
    /\ now' = now + 1
    /\ UNCHANGED <<records, index, localFiles, session, pre>>

\* session p appends to the dictionary it loaded, writes the file and
\* returns True (lines 195-200)
ConcWrite(p) ==
    /\ wf.procs[p].pc = "loaded"
    /\ LET c == wf.procs[p]
       IN  /\ records' = [records EXCEPT ![c.name] =
                  json_dump(WithSubmission(c.project_data, c.submission,
                                           None))]
           /\ ret' = Call("add_submission", c.name, None, RetTrue)
           /\ wf' = [wf EXCEPT !.procs[p] = NoCalls.procs[p],
                               !.returned[c.name] = @ + 1]
    /\ UNCHANGED <<index, localFiles, session, now, pre>>

NextConc ==
    \/ \E p \in Sessions, n \in ProjectNames, f \in SubmissionNames :
          ConcLoad(p, n, f)
    \/ \E p \in Sessions : ConcWrite(p)

SpecConc == InitConc /\ [][NextConc]_vars

\* C16: when add_submission calls for the same project run concurrently,
\* their read-modify-write is serialized: once the calls have returned the
\* record holds one submission for every call that returned True.
C16_NoLostUpdate ==
    (\A p \in Sessions : wf.procs[p].pc = "idle") =>
       \A n \in ProjectNames :
          IsRecord(records[n]) =>
             Len(records[n].data.submissions) = wf.returned[n]

\* C17: within one Ingest Brief or Submit & Evaluate run no step begins
\* unless the previous one succeeded: wait_for_files_active is entered only
\* with an uploaded file, a generation is requested only for a file seen
\* ACTIVE, and a record is written only with the generated text.
C17_StepsAreGated ==
    wf.kind \in {"ingest", "submit"} =>
       /\ wf.pc = "wait" => wf.handle # None
       /\ wf.pc = "generate" => (wf.handle # None /\ wf.state = "ACTIVE")
       /\ (wf.pc = "persist" \/ wf.persisted) =>
             (wf.handle # None /\ wf.state = "ACTIVE" /\ Truthy(wf.text))

\* C19: when the process ends inside save_project or add_submission the
\* storage is as before the operation or as after it: the record file is
\* not half-written, and a record the operation wrote has its name in the
\* index.
C19_CrashLeavesOldOrNew ==
    wf.kind = "crash" =>
       /\ records[wf.name].kind # "corrupt"
       /\ records[wf.name] # pre.records[wf.name] =>
             \E i \in 1..Len(index) : index[i] = wf.name

\* C20: every submission Submit & Evaluate appends records as file_path the
\* path projects/<project>_<timestamp>.pdf under which the document was
\* saved, and the file at that path still exists when the run ends.
C20_FilePathIsSavePath ==
    ( Finished("submit") /\ wf.persisted ) =>
       /\ Last(records[wf.name].data.submissions).file_path = wf.save_path
       /\ wf.save_path \in localFiles

\* the fields of a record that add_submission is said to leave alone
FrameFields == {"name", "brief_content", "original_file", "created_date"}

\* C21: a call add_submission(P, ...) leaves P's name, brief_content,
\* original_file and created_date and every stored submission of P as
\* they were, leaves every other record file and the index as they were,
\* and, when it returns False or raises, leaves the whole store as it was.
C21_AddSubmissionFrame ==
    ret.op = "add_submission" =>
       /\ index = pre.index
       /\ \A n \in ProjectNames \ {ret.name} : records[n] = pre.records[n]
       /\ ret.out # RetTrue => records = pre.records
       /\ ret.out = RetTrue =>
             /\ IsRecord(pre.records[ret.name])
             /\ IsRecord(records[ret.name])
             /\ \A f \in FrameFields :
                   records[ret.name].data[f] = pre.records[ret.name].data[f]
             /\ Len(records[ret.name].data.submissions)
                   = Len(pre.records[ret.name].data.submissions) + 1
             /\ IsPrefix(pre.records[ret.name].data.submissions,
                         records[ret.name].data.submissions)

\* a second submission appended to a record whose first submission and
\* brief are still as stored
C21_Witness ==
    /\ ret.op = "add_submission"
    /\ ret.out = RetTrue
    /\ pre.records[ret.name].data.submissions # <<>>
    /\ records[ret.name].data.created_date
          # Last(records[ret.name].data.submissions).date

\* a call that returned False, the store as it was
C21_WitnessRejected ==
    /\ ret.op = "add_submission"
    /\ ret.out = RetFalse
    /\ \E n \in ProjectNames : IsRecord(records[n])

====
